---------------------------- MODULE Spec2Model ----------------------------
(***************************************************************************)
(* Model of the sensiflow image-processor controller.                      *)
(*                                                                         *)
(*   Spec      the Container Lifecycle Controller (docker_api.py): the     *)
(*             run_container / start_container operations, the goal        *)
(*             detection protocol and the forced removal, with every       *)
(*             engine call allowed to fail.                                *)
(*   PoolSpec  the same operations for as many concurrently started        *)
(*             containers as the api_pool has workers (and more), with an  *)
(*             engine that does not fail; PoolFairSpec adds the fairness   *)
(*             of the event loop and of the pool's worker threads.         *)
(*   DispSpec  the Message-Driven Dispatcher (rabbitmq_handler.py): the    *)
(*             consume loop and process_message.                           *)
(***************************************************************************)
EXTENDS Integers, Sequences, FiniteSets, TLC

(***************************************************************************)
(* Bounds of the model.                                                    *)
(***************************************************************************)
\* number of container names driven under Spec
NumContainers == 1
\* number of container names driven under PoolSpec
PoolContainers == 5
\* longest log line, in tokens
MaxLineLen == 3
\* number of control messages the upstream actor publishes
MaxMsgs == 2
\* number of container names driven under IsoSpec
IsoContainers == 6
\* names used to load the api_pool
LoadContainers == 3
\* number of control messages delivered under FanSpec
FanMsgs == 11
\* operations on the channel pool in progress at once
MaxOps == 11
\* number of instance ids, and the latest timestamp
NumInstances == 1
MaxTime == 1

(***************************************************************************)
(* Program constants.                                                      *)
(***************************************************************************)
\* ThreadPoolExecutor(max_workers=5) of DockerApi
ApiPoolWorkers == 5
\* the engine calls of __wait_container_removal: stop, wait, remove
MaxRemovalCalls == 3
\* channel.set_qos(10) of consume
Prefetch == 10
\* Pool(self.get_channel, max_size=10), Pool(self.get_connection, max_size=2)
ChannelPoolSize == 10
ConnectionPoolSize == 2

Names == 1..NumContainers
PoolNames == 1..PoolContainers
IsoNames == 1..IsoContainers
LoadNames == 1..LoadContainers

(***************************************************************************)
(* Log lines.  A line is a sequence of tokens; the tokens are the pieces   *)
(* of text that goal_reached tells apart: the error marker "[ERROR", the   *)
(* head of the success marker "[SUCCESS 4", a closing bracket "]", other   *)
(* text, and a byte that is not valid UTF-8.                               *)
(***************************************************************************)
ERR == "[ERROR"
SUC == "[SUCCESS 4"
RB == "]"
TXT == "txt"
BAD == "\\xff"

Tokens == {ERR, SUC, RB, TXT, BAD}

Lines == UNION {[1..n -> Tokens] : n \in 1..MaxLineLen}

\* b"[ERROR" in line
HasErrorMarker(line) == \E i \in 1..Len(line) : line[i] = ERR

\* b"[SUCCESS 4]" in line
HasSuccessMarker(line) ==
    \E i \in 1..(Len(line) - 1) : line[i] = SUC /\ line[i + 1] = RB

\* line.decode("utf-8") raises UnicodeDecodeError
DecodeFails(line) == \E i \in 1..Len(line) : line[i] = BAD

\* positions of "]" in the line, and str.split("]"): the pieces between them
RECURSIVE SplitFrom(_, _)
SplitFrom(line, i) ==
    IF i > Len(line) THEN << <<>> >>
    ELSE LET rest == SplitFrom(line, i + 1)
         IN  IF line[i] = RB THEN << <<>> >> \o rest
             ELSE << <<line[i]>> \o rest[1] >> \o Tail(rest)

Split(line) == SplitFrom(line, 1)

NoResult == [kind |-> "pending", success |-> FALSE, error |-> <<>>]
Value(s, e) == [kind |-> "value", success |-> s, error |-> e]
Exc(t) == [kind |-> "exc", success |-> FALSE, error |-> <<t>>]
Continue == [kind |-> "continue", success |-> FALSE, error |-> <<>>]

NOT_REACHED == <<"Did not reach final goal">>

\* the body of the for loop of goal_reached, for one line of the stream
GoalLine(line) ==
    IF DecodeFails(line) THEN Exc("UnicodeDecodeError")
    ELSE IF HasErrorMarker(line)
         THEN IF Len(Split(line)) < 2 THEN Exc("IndexError")
              ELSE Value(FALSE, Split(line)[2])
         ELSE IF HasSuccessMarker(line) THEN Value(TRUE, <<>>)
              ELSE Continue


(***************************************************************************)
(* State of the Container Lifecycle Controller and of the engine.          *)
(***************************************************************************)
VARIABLES
    cstate,     \* engine: status of the container of each name
    kind,       \* controller: the operation called on each name
    pc,         \* controller: where that operation's coroutine stands
    err,        \* controller: the error the operation raised to its caller
    scanRes,    \* the result of the goal_reached future of each name
    goal,       \* the way goal detection ended for each name
    hstatus,    \* container.status of the handle remove_container resolved
    pool,       \* api_pool: the work items its workers run, and its queue
    timedOut,   \* names whose goal_reached future wait_for cancelled
    selfExited, \* names whose container exited on its own
    calls       \* engine calls the controller issued on each name, in order

ctlVars == <<cstate, kind, pc, err, scanRes, goal, hstatus, pool, timedOut,
             selfExited, calls>>

(***************************************************************************)
(* State of the Message-Driven Dispatcher and of the broker.               *)
(***************************************************************************)
Msgs == 1..MaxMsgs

VARIABLES
    body,       \* broker: the body of each control message
    delivery,   \* broker: "queued", "delivered" (unacknowledged) or "acked"
    consumer,   \* consume: where the loop stands, and on which message
    tpc,        \* where the process_message task of each message stands
    hres,       \* how message_handler ended for each message
    texc,       \* the exception a process_message task ended with
    out,        \* process_message: queue_name and message it is to send
    outQ,       \* broker: what was published on the two outbound queues
    sendFailed, \* messages for which a send_message call raised
    effects     \* what message_handler was called to do for each message

dispVars == <<body, delivery, consumer, tpc, hres, texc, out, outQ,
              sendFailed, effects>>

(***************************************************************************)
(* State of the Instance State Store and of its service.                   *)
(***************************************************************************)
VARIABLES
    store,      \* database: the committed rows of table instance, by id
    last        \* the last call of InstanceService and how it ended

storeVars == <<store, last>>

(***************************************************************************)
(* State of the broker transport: the two pools of RabbitMQManager and the *)
(* operations that acquire a channel from them.                            *)
(***************************************************************************)
VARIABLES
    channel_pool,    \* channels created, channels free, the lock of the pool
    connection_pool, \* connections created, connections free
    at,              \* how many operations of each kind stand at each place
    consumeAt,       \* where the consume coroutine stands
    lastDone         \* the operation that finished last, and how

chanVars == <<channel_pool, connection_pool, at, consumeAt, lastDone>>

vars == <<cstate, kind, pc, err, scanRes, goal, hstatus, pool, timedOut,
          selfExited, calls, body, delivery, consumer, tpc, hres, texc, out,
          outQ, sendFailed, effects, store, last, channel_pool,
          connection_pool, at, consumeAt, lastDone>>

NoError == [type |-> "none", detail |-> <<>>]
Error(t, d) == [type |-> t, detail |-> d]

(***************************************************************************)
(* api_pool.  loop.run_in_executor(api_pool, f) hands f to an idle worker  *)
(* thread, or queues it (first in, first out) when all are busy; a worker  *)
(* that finishes takes the head of the queue.                              *)
(***************************************************************************)
Item(c, call) == <<c, call>>

\* Submit on a pool without a limit of workers: every item gets a thread
Submit_NoLimit(p, item) == [p EXCEPT !.running = @ \cup {item}]

Submit(p, item) ==
    IF Cardinality(p.running) < ApiPoolWorkers
    THEN [p EXCEPT !.running = @ \cup {item}]
    ELSE [p EXCEPT !.queue = Append(@, item)]

Finish(p, item) ==
    IF p.queue = <<>>
    THEN [p EXCEPT !.running = @ \ {item}]
    ELSE [p EXCEPT !.running = (@ \ {item}) \cup {Head(p.queue)},
                   !.queue = Tail(@)]

\* Future.cancel() of a work item: a queued item is dropped, a running one
\* keeps its worker until the call returns
RECURSIVE Without(_, _)
Without(q, item) ==
    IF q = <<>> THEN <<>>
    ELSE IF Head(q) = item THEN Without(Tail(q), item)
         ELSE <<Head(q)>> \o Without(Tail(q), item)

Cancel(p, item) == [p EXCEPT !.queue = Without(@, item)]

Running(c, call) == Item(c, call) \in pool.running

(***************************************************************************)
(* run_container: containers.run on the pool, then __wait_goals.           *)
(***************************************************************************)
CallRun(c) ==
    /\ kind[c] = "none"
    /\ kind' = [kind EXCEPT ![c] = "run"]
    /\ pc' = [pc EXCEPT ![c] = "run"]
    /\ pool' = Submit(pool, Item(c, "run"))
    /\ UNCHANGED <<cstate, err, scanRes, goal, hstatus, timedOut, selfExited,
                   calls>>
    /\ UNCHANGED <<dispVars, storeVars, chanVars>>

\* __run_container on a worker; the engine creates and starts the container,
\* or answers with an error (leaving nothing, or a container it created but
\* could not start)
ExecRun(c, res) ==
    /\ pc[c] = "run"
    /\ Running(c, "run")
    /\ calls' = [calls EXCEPT ![c] = Append(@, "run")]
    /\ \/ /\ res = "ok"
          /\ cstate[c] = "absent"
          /\ cstate' = [cstate EXCEPT ![c] = "running"]
          /\ pc' = [pc EXCEPT ![c] = "goal"]
          /\ pool' = Submit(Finish(pool, Item(c, "run")), Item(c, "scan"))
          /\ err' = err
       \/ /\ res \in {"fail", "fail_created"}
          /\ res = "fail_created" => cstate[c] = "absent"
          /\ cstate' = [cstate EXCEPT
                          ![c] = IF res = "fail_created" THEN "created" ELSE @]
          /\ pc' = [pc EXCEPT ![c] = "raised"]
          /\ err' = [err EXCEPT ![c] = Error("APIError", <<>>)]
          /\ pool' = Finish(pool, Item(c, "run"))
    /\ UNCHANGED <<kind, scanRes, goal, hstatus, timedOut, selfExited>>
    /\ UNCHANGED <<dispVars, storeVars, chanVars>>

(***************************************************************************)
(* start_container: get_container, container.start, then __wait_goals.    *)
(***************************************************************************)
CallStart(c) ==
    /\ kind[c] = "none"
    /\ kind' = [kind EXCEPT ![c] = "start"]
    /\ pc' = [pc EXCEPT ![c] = "get"]
    /\ pool' = Submit(pool, Item(c, "get"))
    /\ UNCHANGED <<cstate, err, scanRes, goal, hstatus, timedOut, selfExited,
                   calls>>
    /\ UNCHANGED <<dispVars, storeVars, chanVars>>

\* client.containers.get on a worker, for start_container
ExecGet(c, ok) ==
    /\ pc[c] = "get"
    /\ Running(c, "get")
    /\ calls' = [calls EXCEPT ![c] = Append(@, "get")]
    /\ IF ~ok
       THEN /\ pc' = [pc EXCEPT ![c] = "raised"]
            /\ err' = [err EXCEPT ![c] = Error("APIError", <<>>)]
            /\ pool' = Finish(pool, Item(c, "get"))
       ELSE IF cstate[c] = "absent"
       THEN /\ pc' = [pc EXCEPT ![c] = "raised"]
            /\ err' = [err EXCEPT ![c] = Error("ContainerNotFound", <<>>)]
            /\ pool' = Finish(pool, Item(c, "get"))
       ELSE /\ pc' = [pc EXCEPT ![c] = "start"]
            /\ err' = err
            /\ pool' = Submit(Finish(pool, Item(c, "get")), Item(c, "start"))
    /\ UNCHANGED <<cstate, kind, scanRes, goal, hstatus, timedOut, selfExited>>
    /\ UNCHANGED <<dispVars, storeVars, chanVars>>

\* ExecStart that enters __wait_goals whether container.start returned or
\* raised
ExecStart_ScansAfterFailure(c, ok) ==
    /\ pc[c] = "start"
    /\ Running(c, "start")
    /\ calls' = [calls EXCEPT ![c] = Append(@, "start")]
    /\ ok => cstate[c] # "paused"
    /\ cstate' = IF ok THEN [cstate EXCEPT ![c] = "running"] ELSE cstate
    /\ pc' = [pc EXCEPT ![c] = "goal"]
    /\ err' = err
    /\ pool' = Submit(Finish(pool, Item(c, "start")), Item(c, "scan"))
    /\ UNCHANGED <<kind, scanRes, goal, hstatus, timedOut, selfExited>>
    /\ UNCHANGED <<dispVars, storeVars, chanVars>>

\* container.start on a worker; the engine refuses to start a paused
\* container
ExecStart(c, ok) ==
    /\ pc[c] = "start"
    /\ Running(c, "start")
    /\ calls' = [calls EXCEPT ![c] = Append(@, "start")]
    /\ ok => cstate[c] # "paused"
    /\ IF ok
       THEN /\ cstate' = [cstate EXCEPT ![c] = "running"]
            /\ pc' = [pc EXCEPT ![c] = "goal"]
            /\ err' = err
            /\ pool' = Submit(Finish(pool, Item(c, "start")), Item(c, "scan"))
       ELSE /\ cstate' = cstate
            /\ pc' = [pc EXCEPT ![c] = "raised"]
            /\ err' = [err EXCEPT ![c] = Error("APIError", <<>>)]
            /\ pool' = Finish(pool, Item(c, "start"))
    /\ UNCHANGED <<kind, scanRes, goal, hstatus, timedOut, selfExited>>
    /\ UNCHANGED <<dispVars, storeVars, chanVars>>

(***************************************************************************)
(* __wait_goals: goal_reached on the pool, awaited under wait_for.         *)
(***************************************************************************)
\* the log stream of name c can still deliver a line
StreamOpen(c) == cstate[c] # "absent"

\* the log stream of name c has ended: the container is not running
StreamEnded(c) == cstate[c] \notin {"running", "paused"}

GoalOfLine(line) ==
    IF HasErrorMarker(line) THEN "error_marker"
    ELSE IF HasSuccessMarker(line) THEN "success_marker"
    ELSE "undecodable"

\* One line for each way a line can end the loop.  ScanLine depends on its
\* line through GoalLine and GoalOfLine alone, so drawing the line from
\* EndingLines reaches the states that drawing it from Lines reaches.
LineOutcome(line) == <<GoalLine(line), GoalOfLine(line)>>
EndingLines ==
    {CHOOSE l \in Lines : LineOutcome(l) = o :
        o \in {LineOutcome(l) : l \in {k \in Lines : GoalLine(k).kind # "continue"}}}

\* goal_reached reads a line that ends the loop, by a return or by raising;
\* a scan whose future was cancelled still runs, and its result is dropped
ScanLine(c, line) ==
    /\ Running(c, "scan")
    /\ StreamOpen(c)
    /\ GoalLine(line).kind # "continue"
    /\ pool' = Finish(pool, Item(c, "scan"))
    /\ IF c \in timedOut
       THEN UNCHANGED <<scanRes, goal>>
       ELSE /\ scanRes' = [scanRes EXCEPT ![c] = GoalLine(line)]
            /\ goal' = [goal EXCEPT ![c] = GoalOfLine(line)]
    /\ UNCHANGED <<cstate, kind, pc, err, hstatus, timedOut, selfExited, calls>>
    /\ UNCHANGED <<dispVars, storeVars, chanVars>>

\* the stream ends without a marker: the for loop of goal_reached is over
ScanEnd(c) ==
    /\ Running(c, "scan")
    /\ StreamEnded(c)
    /\ pool' = Finish(pool, Item(c, "scan"))
    /\ IF c \in timedOut
       THEN UNCHANGED <<scanRes, goal>>
       ELSE /\ scanRes' = [scanRes EXCEPT ![c] = Value(FALSE, NOT_REACHED)]
            /\ goal' = [goal EXCEPT ![c] = "exhausted"]
    /\ UNCHANGED <<cstate, kind, pc, err, hstatus, timedOut, selfExited, calls>>
    /\ UNCHANGED <<dispVars, storeVars, chanVars>>

\* container.logs answers with an engine error: goal_reached raises it
ScanFail(c) ==
    /\ Running(c, "scan")
    /\ c \notin timedOut
    /\ pool' = Finish(pool, Item(c, "scan"))
    /\ scanRes' = [scanRes EXCEPT ![c] = Exc("APIError")]
    /\ goal' = [goal EXCEPT ![c] = "stream_error"]
    /\ UNCHANGED <<cstate, kind, pc, err, hstatus, timedOut, selfExited, calls>>
    /\ UNCHANGED <<dispVars, storeVars, chanVars>>

\* the error __wait_goals raises once the forced removal has returned
GoalError(c) ==
    IF c \in timedOut THEN Error("ContainerGoalTimeout", <<>>)
    ELSE Error("ContainerExitedError", scanRes[c].error)

\* GoalResult without the test of success: any result returned by
\* goal_reached lets __wait_goals return
GoalResult_NoSuccessTest(c) ==
    /\ pc[c] = "goal"
    /\ scanRes[c].kind # "pending"
    /\ IF scanRes[c].kind = "exc"
       THEN /\ pc' = [pc EXCEPT ![c] = "raised"]
            /\ err' = [err EXCEPT ![c] = Error(scanRes[c].error[1], <<>>)]
       ELSE /\ pc' = [pc EXCEPT ![c] = "returned"]
            /\ err' = err
    /\ UNCHANGED <<cstate, kind, scanRes, goal, hstatus, pool, timedOut,
                   selfExited, calls>>
    /\ UNCHANGED <<dispVars, storeVars, chanVars>>

\* wait_for returns the result of goal_reached, or raises what it raised
GoalResult(c) ==
    /\ pc[c] = "goal"
    /\ scanRes[c].kind # "pending"
    /\ IF scanRes[c].kind = "exc"
       THEN /\ pc' = [pc EXCEPT ![c] = "raised"]
            /\ err' = [err EXCEPT ![c] = Error(scanRes[c].error[1], <<>>)]
            /\ pool' = pool
       ELSE IF scanRes[c].success
       THEN /\ pc' = [pc EXCEPT ![c] = "returned"]
            /\ UNCHANGED <<err, pool>>
       ELSE /\ pc' = [pc EXCEPT ![c] = "rm_get"]
            /\ pool' = Submit(pool, Item(c, "get"))
            /\ err' = err
    /\ UNCHANGED <<cstate, kind, scanRes, goal, hstatus, timedOut, selfExited,
                   calls>>
    /\ UNCHANGED <<dispVars, storeVars, chanVars>>

\* wait_for times out: it cancels the future of goal_reached and raises
\* TimeoutError, and the except branch calls remove_container
GoalTimeout(c) ==
    /\ pc[c] = "goal"
    /\ scanRes[c].kind = "pending"
    /\ timedOut' = timedOut \cup {c}
    /\ goal' = [goal EXCEPT ![c] = "timeout"]
    /\ pc' = [pc EXCEPT ![c] = "rm_get"]
    /\ pool' = Submit(Cancel(pool, Item(c, "scan")), Item(c, "get"))
    /\ UNCHANGED <<cstate, kind, err, scanRes, hstatus, selfExited, calls>>
    /\ UNCHANGED <<dispVars, storeVars, chanVars>>

(***************************************************************************)
(* remove_container(name, force): get_container, then                      *)
(* __wait_container_removal on the pool.  __wait_goals calls it with       *)
(* force=True.                                                             *)
(***************************************************************************)
\* the force argument of the remove_container that runs for name c
Force(c) == kind[c] # "remove"

CallRemove(c, force) ==
    /\ kind[c] = "none"
    /\ kind' = [kind EXCEPT ![c] = IF force THEN "remove_force" ELSE "remove"]
    /\ pc' = [pc EXCEPT ![c] = "rm_get"]
    /\ pool' = Submit(pool, Item(c, "get"))
    /\ UNCHANGED <<cstate, err, scanRes, goal, hstatus, timedOut, selfExited,
                   calls>>
    /\ UNCHANGED <<dispVars, storeVars, chanVars>>

\* get_container on a worker, for remove_container
ExecRemoveGet(c, ok) ==
    /\ pc[c] = "rm_get"
    /\ Running(c, "get")
    /\ calls' = [calls EXCEPT ![c] = Append(@, "get")]
    /\ IF ~ok
       THEN /\ pc' = [pc EXCEPT ![c] = "raised"]
            /\ err' = [err EXCEPT ![c] = Error("APIError", <<>>)]
            /\ pool' = Finish(pool, Item(c, "get"))
            /\ hstatus' = hstatus
       ELSE IF cstate[c] = "absent"
       THEN /\ pc' = [pc EXCEPT ![c] = "raised"]
            /\ err' = [err EXCEPT ![c] = Error("ContainerNotFound", <<>>)]
            /\ pool' = Finish(pool, Item(c, "get"))
            /\ hstatus' = hstatus
       ELSE /\ pc' = [pc EXCEPT ![c] = "rm_exec"]
            /\ err' = err
            /\ hstatus' = [hstatus EXCEPT ![c] = cstate[c]]
            /\ pool' = Submit(Finish(pool, Item(c, "get")), Item(c, "removal"))
    /\ UNCHANGED <<cstate, kind, scanRes, goal, timedOut, selfExited>>
    /\ UNCHANGED <<dispVars, storeVars, chanVars>>

\* the engine's answer to container.stop
Stopped(s) == IF s \in {"running", "paused"} THEN "exited" ELSE s

\* RemovalCalls with the stop issued whatever the status of the handle
RemovalCalls_AlwaysStop(s, force) ==
    <<"stop">> \o (IF force THEN <<"remove">> ELSE <<"wait", "remove">>)

\* the engine calls of __wait_container_removal, in their order, for a
\* handle whose status is s
RemovalCalls(s, force) ==
    (IF s # "exited" THEN <<"stop">> ELSE <<>>)
        \o (IF force THEN <<"remove">> ELSE <<"wait", "remove">>)

\* __wait_container_removal on a worker: stop unless the handle says
\* "exited", then remove(force=True), or wait and remove; the calls are made
\* one after the other until one fails (failsAt) or all are made
ExecRemoval(c, failsAt) ==
    /\ pc[c] = "rm_exec"
    /\ Running(c, "removal")
    /\ pool' = Finish(pool, Item(c, "removal"))
    /\ LET all == RemovalCalls(hstatus[c], Force(c))
           made == IF failsAt = 0 THEN all ELSE SubSeq(all, 1, failsAt)
           done == IF failsAt = 0 THEN all ELSE SubSeq(all, 1, failsAt - 1)
           stopped == \E i \in DOMAIN done : done[i] = "stop"
           removed == \E i \in DOMAIN done : done[i] = "remove"
       IN  /\ failsAt \in 0..Len(all)
           /\ calls' = [calls EXCEPT ![c] = @ \o made]
           /\ cstate' = [cstate EXCEPT
                           ![c] = IF removed THEN "absent"
                                  ELSE IF stopped THEN Stopped(@) ELSE @]
           /\ IF failsAt # 0
              THEN /\ pc' = [pc EXCEPT ![c] = "raised"]
                   /\ err' = [err EXCEPT ![c] = Error("APIError", <<>>)]
              ELSE IF kind[c] \in {"run", "start"}
              THEN /\ pc' = [pc EXCEPT ![c] = "raised"]
                   /\ err' = [err EXCEPT ![c] = GoalError(c)]
              ELSE /\ pc' = [pc EXCEPT ![c] = "returned"]
                   /\ err' = err
    /\ UNCHANGED <<kind, scanRes, goal, hstatus, timedOut, selfExited>>
    /\ UNCHANGED <<dispVars, storeVars, chanVars>>

(***************************************************************************)
(* get_container, stop_container, pause_container, unpause_container:      *)
(* get_container, then the call on the handle, each on the pool.           *)
(***************************************************************************)
HandleOps == {"stop", "pause", "unpause"}

CallOp(c, op) ==
    /\ kind[c] = "none"
    /\ op \in {"get"} \cup HandleOps
    /\ kind' = [kind EXCEPT ![c] = op]
    /\ pc' = [pc EXCEPT ![c] = "op_get"]
    /\ pool' = Submit(pool, Item(c, "get"))
    /\ UNCHANGED <<cstate, err, scanRes, goal, hstatus, timedOut, selfExited,
                   calls>>
    /\ UNCHANGED <<dispVars, storeVars, chanVars>>

\* ExecOpGet without the except NotFound branch: NotFound, an APIError,
\* reaches the caller as the engine errors do
ExecOpGet_NotFoundAsAPIError(c, ok) ==
    /\ pc[c] = "op_get"
    /\ Running(c, "get")
    /\ calls' = [calls EXCEPT ![c] = Append(@, "get")]
    /\ IF ~ok \/ cstate[c] = "absent"
       THEN /\ pc' = [pc EXCEPT ![c] = "raised"]
            /\ err' = [err EXCEPT ![c] = Error("APIError", <<>>)]
            /\ pool' = Finish(pool, Item(c, "get"))
            /\ hstatus' = hstatus
       ELSE IF kind[c] = "get"
       THEN /\ pc' = [pc EXCEPT ![c] = "returned"]
            /\ err' = err
            /\ pool' = Finish(pool, Item(c, "get"))
            /\ hstatus' = [hstatus EXCEPT ![c] = cstate[c]]
       ELSE /\ pc' = [pc EXCEPT ![c] = "op_exec"]
            /\ err' = err
            /\ pool' = Submit(Finish(pool, Item(c, "get")), Item(c, kind[c]))
            /\ hstatus' = [hstatus EXCEPT ![c] = cstate[c]]
    /\ UNCHANGED <<cstate, kind, scanRes, goal, timedOut, selfExited>>
    /\ UNCHANGED <<dispVars, storeVars, chanVars>>

\* client.containers.get on a worker: the handle, NotFound turned into
\* ContainerNotFound, or an engine error
ExecOpGet(c, ok) ==
    /\ pc[c] = "op_get"
    /\ Running(c, "get")
    /\ calls' = [calls EXCEPT ![c] = Append(@, "get")]
    /\ IF ~ok
       THEN /\ pc' = [pc EXCEPT ![c] = "raised"]
            /\ err' = [err EXCEPT ![c] = Error("APIError", <<>>)]
            /\ pool' = Finish(pool, Item(c, "get"))
            /\ hstatus' = hstatus
       ELSE IF cstate[c] = "absent"
       THEN /\ pc' = [pc EXCEPT ![c] = "raised"]
            /\ err' = [err EXCEPT ![c] = Error("ContainerNotFound", <<>>)]
            /\ pool' = Finish(pool, Item(c, "get"))
            /\ hstatus' = hstatus
       ELSE IF kind[c] = "get"
       THEN /\ pc' = [pc EXCEPT ![c] = "returned"]
            /\ err' = err
            /\ pool' = Finish(pool, Item(c, "get"))
            /\ hstatus' = [hstatus EXCEPT ![c] = cstate[c]]
       ELSE /\ pc' = [pc EXCEPT ![c] = "op_exec"]
            /\ err' = err
            /\ pool' = Submit(Finish(pool, Item(c, "get")), Item(c, kind[c]))
            /\ hstatus' = [hstatus EXCEPT ![c] = cstate[c]]
    /\ UNCHANGED <<cstate, kind, scanRes, goal, timedOut, selfExited>>
    /\ UNCHANGED <<dispVars, storeVars, chanVars>>

\* the engine accepts the call op on a container in state s
EngineAccepts(op, s) ==
    IF op = "pause" THEN s = "running"
    ELSE IF op = "unpause" THEN s = "paused"
    ELSE s # "absent"

\* the state of the container once the engine has carried out op
EngineAfter(op, s) ==
    IF op = "pause" THEN "paused"
    ELSE IF op = "unpause" THEN "running"
    ELSE Stopped(s)

\* container.stop / pause / unpause on a worker
ExecOp(c, ok) ==
    /\ pc[c] = "op_exec"
    /\ Running(c, kind[c])
    /\ pool' = Finish(pool, Item(c, kind[c]))
    /\ calls' = [calls EXCEPT ![c] = Append(@, kind[c])]
    /\ IF ok
       THEN /\ EngineAccepts(kind[c], cstate[c])
            /\ cstate' = [cstate EXCEPT ![c] = EngineAfter(kind[c], @)]
            /\ pc' = [pc EXCEPT ![c] = "returned"]
            /\ err' = err
       ELSE /\ cstate' = cstate
            /\ pc' = [pc EXCEPT ![c] = "raised"]
            /\ err' = [err EXCEPT ![c] = Error("APIError", <<>>)]
    /\ UNCHANGED <<kind, scanRes, goal, hstatus, timedOut, selfExited>>
    /\ UNCHANGED <<dispVars, storeVars, chanVars>>

(***************************************************************************)
(* check_health: client.ping on the pool.                                  *)
(***************************************************************************)
CallHealth(c) ==
    /\ kind[c] = "none"
    /\ kind' = [kind EXCEPT ![c] = "health"]
    /\ pc' = [pc EXCEPT ![c] = "ping"]
    /\ pool' = Submit(pool, Item(c, "ping"))
    /\ UNCHANGED <<cstate, err, scanRes, goal, hstatus, timedOut, selfExited,
                   calls>>
    /\ UNCHANGED <<dispVars, storeVars, chanVars>>

\* ExecPing whose except branch logs the error and does not raise it
ExecPing_SwallowsError(c, ok) ==
    /\ pc[c] = "ping"
    /\ Running(c, "ping")
    /\ pool' = Finish(pool, Item(c, "ping"))
    /\ calls' = [calls EXCEPT ![c] = Append(@, "ping")]
    /\ pc' = [pc EXCEPT ![c] = "returned"]
    /\ err' = err
    /\ UNCHANGED <<cstate, kind, scanRes, goal, hstatus, timedOut, selfExited>>
    /\ UNCHANGED <<dispVars, storeVars, chanVars>>

\* client.ping on a worker; the except branch logs and raises the error
ExecPing(c, ok) ==
    /\ pc[c] = "ping"
    /\ Running(c, "ping")
    /\ pool' = Finish(pool, Item(c, "ping"))
    /\ calls' = [calls EXCEPT ![c] = Append(@, "ping")]
    /\ IF ok
       THEN /\ pc' = [pc EXCEPT ![c] = "returned"]
            /\ err' = err
       ELSE /\ pc' = [pc EXCEPT ![c] = "raised"]
            /\ err' = [err EXCEPT ![c] = Error("APIError", <<>>)]
    /\ UNCHANGED <<cstate, kind, scanRes, goal, hstatus, timedOut, selfExited>>
    /\ UNCHANGED <<dispVars, storeVars, chanVars>>

(***************************************************************************)
(* The container's own behaviour.                                          *)
(***************************************************************************)
\* the process in the container exits
ContainerExit(c) ==
    /\ cstate[c] = "running"
    /\ cstate' = [cstate EXCEPT ![c] = "exited"]
    /\ selfExited' = selfExited \cup {c}
    /\ UNCHANGED <<kind, pc, err, scanRes, goal, hstatus, pool, timedOut, calls>>
    /\ UNCHANGED <<dispVars, storeVars, chanVars>>

(***************************************************************************)
(* Messages of the Message-Driven Dispatcher.                              *)
(***************************************************************************)
\* Action, the enum of instance_manager.message
ActionNames == {"CREATE", "REMOVE", "PAUSE"}
Devices == {"cam-1", "cam-2"}
Keys == {"action", "device_id"}

\* message bodies: text that is not JSON, and JSON objects with any of the
\* keys, naming an action of the enum or another
Objects == UNION {[K -> ActionNames \cup {"BOGUS"} \cup Devices] : K \in SUBSET Keys}
Bodies ==
    {[form |-> "text", obj |-> <<>>]} \cup
    {[form |-> "object", obj |-> o] : o \in
        {o \in Objects :
            /\ "action" \in DOMAIN o => o["action"] \in ActionNames \cup {"BOGUS"}
            /\ "device_id" \in DOMAIN o => o["device_id"] \in Devices}}

\* DecodeError without the lookup of the action in Action
DecodeError_AnyAction(b) ==
    IF b.form = "text" THEN "JSONDecodeError"
    ELSE IF "action" \notin DOMAIN b.obj THEN "KeyError"
    ELSE IF "device_id" \notin DOMAIN b.obj THEN "KeyError"
    ELSE "none"

\* the first statements of process_message, in their order: json.loads, the
\* lookup of the action in Action, the lookup of device_id
DecodeError(b) ==
    IF b.form = "text" THEN "JSONDecodeError"
    ELSE IF "action" \notin DOMAIN b.obj THEN "KeyError"
    ELSE IF b.obj["action"] \notin ActionNames THEN "KeyError"
    ELSE IF "device_id" \notin DOMAIN b.obj THEN "KeyError"
    ELSE "none"

\* message_dto
Dto(b) == [action |-> b.obj["action"], device_id |-> b.obj["device_id"]]

AckStatusMessage(code, dev, state, msg) ==
    [type |-> "status", code |-> code, device_id |-> dev, state |-> state,
     message |-> msg]
AckDeleteMessage(dev) ==
    [type |-> "delete", code |-> 0, device_id |-> dev, state |-> "",
     message |-> ""]

NoOut == [queue |-> "none", message |-> AckDeleteMessage("")]

\* the failures message_handler raises, and the one of the broker plumbing
Failure(t, text) == [type |-> t, text |-> text]
HandlerFailures == {Failure("ContainerExitedError", "container exited")}
BrokerFailure == Failure("AMQPError", "channel closed")
NoFailure == Failure("none", "")
Ok == Failure("ok", "")

\* f"{e}"
Str(e) == e.text

(***************************************************************************)
(* consume: the loop over the control queue.                               *)
(***************************************************************************)
\* the iterator yields the next message, which the broker delivers while
\* fewer than Prefetch deliveries are unacknowledged; inside
\* message.process() the loop hands loop.create_task(process_message(...))
\* to the consumer_pool
Deliver(m, b) ==
    /\ consumer.at = "iter"
    /\ delivery[m] = "queued"
    /\ \A k \in DOMAIN delivery : k < m => delivery[k] # "queued"
    /\ Cardinality({k \in DOMAIN delivery : delivery[k] = "delivered"}) < Prefetch
    /\ body' = [body EXCEPT ![m] = b]
    /\ delivery' = [delivery EXCEPT ![m] = "delivered"]
    /\ tpc' = [tpc EXCEPT ![m] = "submitted"]
    /\ consumer' = [at |-> "process", msg |-> m]
    /\ UNCHANGED <<hres, texc, out, outQ, sendFailed, effects>>
    /\ UNCHANGED <<ctlVars, storeVars, chanVars>>

\* AckDelivery of a loop that awaits the handler task before it leaves
\* message.process()
AckDelivery_AwaitsHandler ==
    /\ consumer.at = "process"
    /\ tpc[consumer.msg] \in {"returned", "raised"}
    /\ delivery' = [delivery EXCEPT ![consumer.msg] = "acked"]
    /\ consumer' = [at |-> "iter", msg |-> 0]
    /\ UNCHANGED <<body, tpc, hres, texc, out, outQ, sendFailed, effects>>
    /\ UNCHANGED <<ctlVars, storeVars, chanVars>>

\* message.process() exits without an exception: it awaits message.ack()
AckDelivery ==
    /\ consumer.at = "process"
    /\ delivery' = [delivery EXCEPT ![consumer.msg] = "acked"]
    /\ consumer' = [at |-> "iter", msg |-> 0]
    /\ UNCHANGED <<body, tpc, hres, texc, out, outQ, sendFailed, effects>>
    /\ UNCHANGED <<ctlVars, storeVars, chanVars>>

\* a consumer_pool worker calls loop.create_task on the coroutine
CreateTask(m) ==
    /\ tpc[m] = "submitted"
    /\ tpc' = [tpc EXCEPT ![m] = "created"]
    /\ UNCHANGED <<body, delivery, consumer, hres, texc, out, outQ,
                   sendFailed, effects>>
    /\ UNCHANGED <<ctlVars, storeVars, chanVars>>

(***************************************************************************)
(* process_message.                                                        *)
(***************************************************************************)
\* what message_handler is asked to do for an action: a mutation of the
\* Instance Store and an operation of the Lifecycle Controller
HandlerEffects(action) ==
    IF action = "CREATE" THEN {"store:create", "run_container"}
    ELSE IF action = "REMOVE" THEN {"store:delete", "remove_container"}
    ELSE {"store:update", "pause_container"}

\* the task runs to its first await: it decodes the body and, unless that
\* raises, calls message_handler
StartTask(m) ==
    /\ tpc[m] = "created"
    /\ IF DecodeError(body[m]) # "none"
       THEN /\ tpc' = [tpc EXCEPT ![m] = "raised"]
            /\ texc' = [texc EXCEPT ![m] = DecodeError(body[m])]
            /\ effects' = effects
       ELSE /\ tpc' = [tpc EXCEPT ![m] = "handling"]
            /\ texc' = texc
            /\ effects' = [effects EXCEPT
                             ![m] = HandlerEffects(Dto(body[m]).action)]
    /\ UNCHANGED <<body, delivery, consumer, hres, out, outQ, sendFailed>>
    /\ UNCHANGED <<ctlVars, storeVars, chanVars>>

\* message_handler returns: the try block builds the acknowledgment
HandlerReturn(m) ==
    /\ tpc[m] = "handling"
    /\ hres' = [hres EXCEPT ![m] = Ok]
    /\ out' = [out EXCEPT ![m] =
                 IF Dto(body[m]).action = "REMOVE"
                 THEN [queue |-> "delete",
                       message |-> AckDeleteMessage(Dto(body[m]).device_id)]
                 ELSE [queue |-> "status",
                       message |-> AckStatusMessage(2000, Dto(body[m]).device_id,
                                                    body[m].obj["action"], "OK")]]
    /\ tpc' = [tpc EXCEPT ![m] = "send_try"]
    /\ UNCHANGED <<body, delivery, consumer, texc, outQ, sendFailed, effects>>
    /\ UNCHANGED <<ctlVars, storeVars, chanVars>>

\* FailureAck addressed to the queue of the action, as the try block does
FailureAck_ByAction(m, e) ==
    [queue |-> IF Dto(body[m]).action = "REMOVE" THEN "delete" ELSE "status",
     message |-> AckStatusMessage(4000, Dto(body[m]).device_id,
                                  body[m].obj["action"], Str(e))]

\* FailureAck built from the message decoded last, as if message_dto and
\* message_dict were shared by the tasks
FailureAck_OfLastDecoded(m, e) ==
    LET decoded == {j \in DOMAIN tpc :
                      tpc[j] \in {"handling", "send_try", "send_except"}}
        k == CHOOSE j \in decoded : \A i \in decoded : i <= j
    IN  [queue |-> "status",
         message |-> AckStatusMessage(4000, body[k].obj["device_id"],
                                      body[k].obj["action"], Str(e))]

\* the acknowledgment the except branch builds for exception e
FailureAck(m, e) ==
    [queue |-> "status",
     message |-> AckStatusMessage(4000, Dto(body[m]).device_id,
                                  body[m].obj["action"], Str(e))]

\* message_handler raises e
HandlerRaise(m, e) ==
    /\ tpc[m] = "handling"
    /\ hres' = [hres EXCEPT ![m] = e]
    /\ out' = [out EXCEPT ![m] = FailureAck(m, e)]
    /\ tpc' = [tpc EXCEPT ![m] = "send_except"]
    /\ UNCHANGED <<body, delivery, consumer, texc, outQ, sendFailed, effects>>
    /\ UNCHANGED <<ctlVars, storeVars, chanVars>>

\* send_message(queue_name, message): the broker takes the message, or one
\* of the channel calls raises
SendMessage(m, ok) ==
    /\ tpc[m] \in {"send_try", "send_except"}
    /\ IF ok
       THEN /\ outQ' = [outQ EXCEPT ![out[m].queue] =
                           Append(@, [src |-> m, message |-> out[m].message])]
            /\ tpc' = [tpc EXCEPT ![m] = "returned"]
            /\ UNCHANGED <<out, texc, sendFailed>>
       ELSE /\ sendFailed' = [sendFailed EXCEPT ![m] = TRUE]
            /\ outQ' = outQ
            /\ IF tpc[m] = "send_try"
               THEN /\ out' = [out EXCEPT ![m] = FailureAck(m, BrokerFailure)]
                    /\ tpc' = [tpc EXCEPT ![m] = "send_except"]
                    /\ texc' = texc
               ELSE /\ tpc' = [tpc EXCEPT ![m] = "raised"]
                    /\ texc' = [texc EXCEPT ![m] = BrokerFailure.type]
                    /\ out' = out
    /\ UNCHANGED <<body, delivery, consumer, hres, effects>>
    /\ UNCHANGED <<ctlVars, storeVars, chanVars>>

(***************************************************************************)
(* Instance State Store: table instance, InstanceDAO, InstanceService.     *)
(***************************************************************************)
InstanceIds == 1..NumInstances
Times == 0..MaxTime

\* InstanceStatus; a member of the enum and its name are different values
StatusNames == {"ACTIVE", "INACTIVE", "PAUSED"}
Member(n) == [is |-> "InstanceStatus", name |-> n]
Text(n) == [is |-> "str", name |-> n]

\* Instance(id, status, created_at, updated_at): the value object, its
\* status a member of InstanceStatus whether given as member or as name
Instance(id, status, c, u) ==
    [id |-> id, status |-> Member(status.name), created_at |-> c,
     updated_at |-> u]

\* ValidInstance that accepts every pair of timestamps
ValidInstance_AnyTimes(c, u) == TRUE

\* the constructor of Instance accepts the timestamps; it raises
\* DomainLogicError otherwise
ValidInstance(c, u) == u >= c

\* the parameters InstanceDAO passes for an instance: status.name, and the
\* row of the table that holds them
RowOf(i) == <<i.id, Text(i.status.name), i.created_at, i.updated_at>>

\* Instance(*row)
InstanceOfRow(row) == Instance(row[1], row[2], row[3], row[4])

\* the CHECK constraints of table instance
RowAccepted(row) == row[2].name \in StatusNames /\ row[4] >= row[3]

\* cursor.execute(query, params) on a query with %s placeholders takes a
\* sequence of parameters and raises TypeError for a mapping
ParamsError(params) == IF params = "mapping" THEN "TypeError" ELSE "none"

DaoResult(exc, table, value) == [exc |-> exc, table |-> table, value |-> value]

\* InstanceDAO.get_instance: the Instance of the row, or None
DaoGet(t, id) == IF id \in DOMAIN t THEN <<InstanceOfRow(t[id])>> ELSE <<>>

\* InstanceDAO.create_instance: INSERT ... RETURNING id
DaoCreate(t, i) ==
    IF i.id \in DOMAIN t THEN DaoResult("UniqueViolation", t, <<>>)
    ELSE IF ~RowAccepted(RowOf(i)) THEN DaoResult("CheckViolation", t, <<>>)
    ELSE DaoResult("none", t @@ (i.id :> RowOf(i)), <<i.id>>)

\* UPDATE instance SET ... WHERE id = %s, with params of the given shape
ExecuteUpdate(t, i, params) ==
    IF ParamsError(params) # "none" THEN DaoResult(ParamsError(params), t, <<>>)
    ELSE IF i.id \notin DOMAIN t THEN DaoResult("none", t, <<0>>)
    ELSE IF ~RowAccepted(RowOf(i)) THEN DaoResult("CheckViolation", t, <<>>)
    ELSE DaoResult("none", [t EXCEPT ![i.id] = RowOf(i)], <<1>>)

\* InstanceDAO.update_instance: the query is executed with the tuple of
\* parameters and then again with asdict(instance); rowcount is returned
DaoUpdate(t, i) ==
    LET first == ExecuteUpdate(t, i, "sequence")
    IN  IF first.exc # "none" THEN first
        ELSE ExecuteUpdate(first.table, i, "mapping")

\* InstanceDAO.delete_instance: DELETE ... WHERE id = %s, rowcount
DaoDelete(t, id) ==
    IF id \in DOMAIN t
    THEN DaoResult("none", [k \in DOMAIN t \ {id} |-> t[k]], <<1>>)
    ELSE DaoResult("none", t, <<0>>)

\* with transaction(conn_manager): the statements are committed when the
\* block returns and rolled back when it raises
Transaction(before, after, exc) == IF exc = "none" THEN after ELSE before

NoCall == [op |-> "none", id |-> 0, times |-> <<>>, present |-> FALSE,
           exc |-> "none", ret |-> <<>>]

\* a call of the service: the operation, the id and the timestamps it was
\* given, whether the id was stored, the exception raised, the value returned
Call(op, id, times, exc, ret) ==
    [op |-> op, id |-> id, times |-> times, present |-> id \in DOMAIN store,
     exc |-> exc, ret |-> ret]

\* the ways run_container ends for create_instance
RunOutcomes ==
    {"none", "APIError", "ContainerExitedError", "ContainerGoalTimeout"}

\* InstanceService.get_instance(id)
GetInstance(id) ==
    /\ store' = store
    /\ last' = IF DaoGet(store, id) = <<>>
               THEN Call("get", id, <<>>, "InstanceNotFound", <<>>)
               ELSE Call("get", id, <<>>, "none", DaoGet(store, id))
    /\ UNCHANGED <<ctlVars, dispVars, chanVars>>

\* the caller builds Instance(id, st, c, u) and calls
\* InstanceService.create_instance, whose run_container ends as run says
CreateInstance(id, st, c, u, run) ==
    /\ IF ~ValidInstance(c, u)
       THEN /\ store' = store
            /\ last' = Call("create", id, <<c, u>>, "DomainLogicError", <<>>)
       ELSE LET d == DaoCreate(store, Instance(id, Member(st), c, u))
                exc == IF d.exc # "none" THEN d.exc ELSE run
            IN  /\ store' = Transaction(store, d.table, exc)
                /\ last' = Call("create", id, <<c, u>>, exc,
                                IF exc = "none" THEN d.value ELSE <<>>)
    /\ UNCHANGED <<ctlVars, dispVars, chanVars>>

\* the caller builds Instance(id, st, c, u) and calls
\* InstanceService.update_instance
UpdateInstance(id, st, c, u) ==
    /\ IF ~ValidInstance(c, u)
       THEN /\ store' = store
            /\ last' = Call("update", id, <<c, u>>, "DomainLogicError", <<>>)
       ELSE LET d == DaoUpdate(store, Instance(id, Member(st), c, u))
                exc == IF d.exc # "none" THEN d.exc
                       ELSE IF d.value = <<0>> THEN "InstanceNotFound"
                       ELSE "none"
            IN  /\ store' = Transaction(store, d.table, exc)
                /\ last' = Call("update", id, <<c, u>>, exc,
                                IF exc = "none" THEN <<d.value = <<1>>>> ELSE <<>>)
    /\ UNCHANGED <<ctlVars, dispVars, chanVars>>

\* InstanceService.delete_instance(id)
DeleteInstance(id) ==
    /\ LET d == DaoDelete(store, id)
           exc == IF d.value = <<0>> THEN "InstanceNotFound" ELSE "none"
       IN  /\ store' = Transaction(store, d.table, exc)
           /\ last' = Call("delete", id, <<>>, exc,
                           IF exc = "none" THEN <<d.value = <<1>>>> ELSE <<>>)
    /\ UNCHANGED <<ctlVars, dispVars, chanVars>>

(***************************************************************************)
(* InstanceService.create_instance step by step: the INSERT, then          *)
(* run_container on the container named after the instance, then the end   *)
(* of the transaction.                                                     *)
(***************************************************************************)
\* create_instance is inside its transaction, for instance id
Pending(id) == last.op = "create" /\ last.exc = "pending" /\ last.id = id

\* the caller builds Instance(id, st, c, u) and calls create_instance, which
\* runs the INSERT; a row the INSERT added is not committed yet
CreateBegin(id, st, c, u) ==
    /\ last.exc # "pending"
    /\ kind[id] = "none"
    /\ store' = store
    /\ IF ~ValidInstance(c, u)
       THEN last' = Call("create", id, <<c, u>>, "DomainLogicError", <<>>)
       ELSE LET i == Instance(id, Member(st), c, u)
                d == DaoCreate(store, i)
            IN  IF d.exc # "none"
                THEN last' = Call("create", id, <<c, u>>, d.exc, <<>>)
                ELSE last' = Call("create", id, <<c, u>>, "pending", <<i>>)
    /\ UNCHANGED <<ctlVars, dispVars, chanVars>>

\* await self.docker_api.run_container(instance.id, ...)
CreateRun(id) ==
    /\ Pending(id)
    /\ CallRun(id)

\* run_container returned or raised: the transaction commits the row and
\* create_instance returns the id, or it rolls back and the exception goes on
CreateEnd(id) ==
    /\ Pending(id)
    /\ pc[id] \in {"returned", "raised"}
    /\ LET d == DaoCreate(store, last.ret[1])
           exc == IF pc[id] = "raised" THEN err[id].type ELSE "none"
       IN  /\ store' = Transaction(store, d.table, exc)
           /\ last' = Call("create", id, last.times, exc,
                           IF exc = "none" THEN d.value ELSE <<>>)
    /\ UNCHANGED <<ctlVars, dispVars, chanVars>>

(***************************************************************************)
(* Broker transport.  `async with channel_pool.acquire() as channel` gets  *)
(* a channel from the pool on entry and puts it back on exit.  The pool    *)
(* hands out a free channel if it has one, creates one with get_channel    *)
(* (under its lock) while fewer than max_size were created, and makes the  *)
(* caller wait for a put otherwise.  The operations of one kind are        *)
(* interchangeable, so the state counts them place by place.               *)
(***************************************************************************)
\* RabbitMQClient.send_message and AsyncRabbitMQClient.register_queue, and
\* the consume coroutine
OpKinds == {"send", "register"}
AllKinds == OpKinds \cup {"consume"}

\* where an operation stands: waiting for the lock of the pool, inside
\* get_channel, waiting for a put with the lock held, waiting for a put,
\* inside the `async with`, iterating over the control queue
Places == {"lock", "create", "lockq", "queue", "body", "iterating"}

\* the channel calls inside the `async with` of each kind, in their order
Body(k) ==
    IF k = "send"
    THEN <<"declare_exchange", "declare_queue", "bind", "publish">>
    ELSE IF k = "register" THEN <<"declare_queue", "bind">>
    ELSE <<"set_qos", "declare_queue">>

Enter(k, to) == [at EXCEPT ![k][to] = @ + 1]
Leave(k, from) == IF from = "none" THEN at ELSE [at EXCEPT ![k][from] = @ - 1]
Move(k, from, to) ==
    IF from = "none" THEN Enter(k, to)
    ELSE [at EXCEPT ![k][from] = @ - 1, ![k][to] = @ + 1]

\* operations of send_message and register_queue in progress
InFlight == at["send"]["lock"] + at["send"]["create"] + at["send"]["lockq"]
            + at["send"]["queue"] + at["send"]["body"]
            + at["register"]["lock"] + at["register"]["create"]
            + at["register"]["lockq"] + at["register"]["queue"]
            + at["register"]["body"]

\* channels that are out of the pool, and connections that are
HeldChannels == channel_pool.created - channel_pool.free
HeldConnections == connection_pool.created - connection_pool.free

\* Pool._is_overflow
IsOverflow(p, max) == p.created >= max \/ p.free > 0

NoDone == [kind |-> "none", how |-> "none"]
Done(k, how) == [kind |-> k, how |-> how]

\* consume after one of its steps: it goes on, iterates, or has raised
ConsumeAfter(k, how) ==
    IF k # "consume" THEN consumeAt
    ELSE IF how = "on" THEN "started"
    ELSE IF how = "ok" THEN "iterating"
    ELSE "ended"

\* put that returns the channel only when the block did not raise
Release_OnlyOnSuccess(p, raised) ==
    IF raised THEN p ELSE [p EXCEPT !.free = @ + 1]

\* PoolItemContextManager.__aexit__: pool.put(item), whether the block
\* raised or not
Release(p, raised) == [p EXCEPT !.free = @ + 1]

\* Pool._create_item with the lock taken and no overflow: get_channel
\* acquires a connection, a free one or a new one from connect_robust, which
\* may raise
CreateItem(k, from, connOk) ==
    /\ connection_pool.free > 0
         \/ connection_pool.created < ConnectionPoolSize
    /\ IF connection_pool.free > 0 \/ connOk
       THEN /\ connection_pool' =
                 IF connection_pool.free > 0
                 THEN [connection_pool EXCEPT !.free = @ - 1]
                 ELSE [connection_pool EXCEPT !.created = @ + 1]
            /\ channel_pool' = [channel_pool EXCEPT !.locked = TRUE]
            /\ at' = Move(k, from, "create")
            /\ consumeAt' = ConsumeAfter(k, "on")
            /\ lastDone' = lastDone
       ELSE /\ at' = Leave(k, from)
            /\ consumeAt' = ConsumeAfter(k, "connect")
            /\ lastDone' = Done(k, "connect")
            /\ UNCHANGED <<connection_pool, channel_pool>>

\* channel_pool.acquire() is entered: Pool._get
ChanAcquire(k, connOk) ==
    /\ IF k = "consume" THEN consumeAt = "init"
       ELSE consumeAt = "iterating" /\ InFlight < MaxOps
    /\ IF channel_pool.free > 0
       THEN /\ channel_pool' = [channel_pool EXCEPT !.free = @ - 1]
            /\ at' = Enter(k, "body")
            /\ consumeAt' = ConsumeAfter(k, "on")
            /\ UNCHANGED <<connection_pool, lastDone>>
       ELSE IF channel_pool.created >= ChannelPoolSize
       THEN /\ at' = Enter(k, "queue")
            /\ consumeAt' = ConsumeAfter(k, "on")
            /\ UNCHANGED <<channel_pool, connection_pool, lastDone>>
       ELSE IF channel_pool.locked
       THEN /\ at' = Enter(k, "lock")
            /\ consumeAt' = ConsumeAfter(k, "on")
            /\ UNCHANGED <<channel_pool, connection_pool, lastDone>>
       ELSE CreateItem(k, "none", connOk)
    /\ UNCHANGED <<ctlVars, dispVars, storeVars>>

\* an operation that waited for the lock takes it: Pool._create_item tests
\* the overflow again
LockTaken(k, connOk) ==
    /\ at[k]["lock"] > 0
    /\ ~channel_pool.locked
    /\ IF channel_pool.free > 0
       THEN /\ channel_pool' = [channel_pool EXCEPT !.free = @ - 1]
            /\ at' = Move(k, "lock", "body")
            /\ UNCHANGED <<connection_pool, consumeAt, lastDone>>
       ELSE IF channel_pool.created >= ChannelPoolSize
       THEN /\ channel_pool' = [channel_pool EXCEPT !.locked = TRUE]
            /\ at' = Move(k, "lock", "lockq")
            /\ UNCHANGED <<connection_pool, consumeAt, lastDone>>
       ELSE CreateItem(k, "lock", connOk)
    /\ UNCHANGED <<ctlVars, dispVars, storeVars>>

\* get_channel ends: connection.channel() returns or raises, the connection
\* goes back to its pool, the lock is released
EndCreate(k, ok) ==
    /\ at[k]["create"] > 0
    /\ connection_pool' = [connection_pool EXCEPT !.free = @ + 1]
    /\ IF ok
       THEN /\ channel_pool' = [channel_pool EXCEPT !.created = @ + 1,
                                                    !.locked = FALSE]
            /\ at' = Move(k, "create", "body")
            /\ UNCHANGED <<consumeAt, lastDone>>
       ELSE /\ channel_pool' = [channel_pool EXCEPT !.locked = FALSE]
            /\ at' = Leave(k, "create")
            /\ consumeAt' = ConsumeAfter(k, "channel")
            /\ lastDone' = Done(k, "channel")
    /\ UNCHANGED <<ctlVars, dispVars, storeVars>>

\* an operation that waited for a put gets the channel that was put
QueueGet(k, from) ==
    /\ from \in {"queue", "lockq"}
    /\ at[k][from] > 0
    /\ channel_pool.free > 0
    /\ channel_pool' = [channel_pool EXCEPT
                          !.free = @ - 1,
                          !.locked = IF from = "lockq" THEN FALSE ELSE @]
    /\ at' = Move(k, from, "body")
    /\ UNCHANGED <<connection_pool, consumeAt, lastDone>>
    /\ UNCHANGED <<ctlVars, dispVars, storeVars>>

\* the block of the `async with` runs: its calls succeed (failsAt = 0) or
\* call number failsAt raises; send_message and register_queue leave the
\* block either way, consume leaves it only by raising
ExecBody(k, failsAt) ==
    /\ at[k]["body"] > 0
    /\ failsAt \in 0..Len(Body(k))
    /\ IF k = "consume" /\ failsAt = 0
       THEN /\ at' = Move(k, "body", "iterating")
            /\ channel_pool' = channel_pool
       ELSE /\ at' = Leave(k, "body")
            /\ channel_pool' = Release(channel_pool, failsAt # 0)
    /\ consumeAt' = ConsumeAfter(k, IF failsAt = 0 THEN "ok" ELSE "raised")
    /\ lastDone' = Done(k, IF failsAt = 0 THEN "ok" ELSE Body(k)[failsAt])
    /\ UNCHANGED connection_pool
    /\ UNCHANGED <<ctlVars, dispVars, storeVars>>

(***************************************************************************)
(* Specifications.                                                         *)
(***************************************************************************)
\* the controller after construction, for the names N: no operation
\* called, an empty pool
CtlInit(N) ==
    /\ kind = [c \in N |-> "none"]
    /\ pc = [c \in N |-> "idle"]
    /\ err = [c \in N |-> NoError]
    /\ scanRes = [c \in N |-> NoResult]
    /\ goal = [c \in N |-> "none"]
    /\ hstatus = [c \in N |-> "none"]
    /\ pool = [running |-> {}, queue |-> <<>>]
    /\ timedOut = {}
    /\ selfExited = {}
    /\ calls = [c \in N |-> <<>>]

\* the dispatcher before the consumer is started, for the messages M
DispInit(M) ==
    /\ body = [m \in M |-> [form |-> "text", obj |-> <<>>]]
    /\ delivery = [m \in M |-> "queued"]
    /\ consumer = [at |-> "iter", msg |-> 0]
    /\ tpc = [m \in M |-> "none"]
    /\ hres = [m \in M |-> NoFailure]
    /\ texc = [m \in M |-> "none"]
    /\ out = [m \in M |-> NoOut]
    /\ outQ = [status |-> <<>>, delete |-> <<>>]
    /\ sendFailed = [m \in M |-> FALSE]
    /\ effects = [m \in M |-> {}]

\* the table instance is empty and the service was not called
StoreInit ==
    /\ store = << >>
    /\ last = NoCall

\* the pools are empty and consume was not started
ChanInit ==
    /\ channel_pool = [created |-> 0, free |-> 0, locked |-> FALSE]
    /\ connection_pool = [created |-> 0, free |-> 0]
    /\ at = [k \in AllKinds |-> [p \in Places |-> 0]]
    /\ consumeAt = "init"
    /\ lastDone = NoDone

\* the engine holds, under each name, no container or a stopped one
Init ==
    /\ cstate \in [Names -> {"absent", "exited"}]
    /\ CtlInit(Names)
    /\ DispInit({})
    /\ StoreInit
    /\ ChanInit

Next ==
    \E c \in Names :
        \/ CallRun(c)
        \/ CallStart(c)
        \/ \E o \in {"ok", "fail", "fail_created"} : ExecRun(c, o)
        \/ \E ok \in BOOLEAN : ExecGet(c, ok)
        \/ \E ok \in BOOLEAN : ExecStart(c, ok)
        \/ \E line \in EndingLines : ScanLine(c, line)
        \/ ScanEnd(c)
        \/ ScanFail(c)
        \/ GoalResult(c)
        \/ GoalTimeout(c)
        \/ \E ok \in BOOLEAN : ExecRemoveGet(c, ok)
        \/ \E failsAt \in 0..MaxRemovalCalls : ExecRemoval(c, failsAt)
        \/ ContainerExit(c)

Spec == Init /\ [][Next]_vars

\* every operation of the controller, on containers in any state the
\* engine can hold them in
AllInit ==
    /\ cstate \in [Names -> {"absent", "created", "running", "paused", "exited"}]
    /\ CtlInit(Names)
    /\ DispInit({})
    /\ StoreInit
    /\ ChanInit

\* one log line for each branch of the loop of goal_reached that ends it:
\* an error marker with and without a closing bracket, the success marker,
\* bytes that do not decode
BranchLines == {<<ERR, RB, TXT>>, <<ERR>>, <<SUC, RB>>, <<BAD>>}

AllNext ==
    \E c \in Names :
        \/ CallRun(c)
        \/ CallStart(c)
        \/ \E o \in {"ok", "fail", "fail_created"} : ExecRun(c, o)
        \/ \E ok \in BOOLEAN : ExecGet(c, ok)
        \/ \E ok \in BOOLEAN : ExecStart(c, ok)
        \/ \E line \in BranchLines : ScanLine(c, line)
        \/ ScanEnd(c)
        \/ ScanFail(c)
        \/ GoalResult(c)
        \/ GoalTimeout(c)
        \/ \E force \in BOOLEAN : CallRemove(c, force)
        \/ \E ok \in BOOLEAN : ExecRemoveGet(c, ok)
        \/ \E failsAt \in 0..MaxRemovalCalls : ExecRemoval(c, failsAt)
        \/ \E op \in {"get"} \cup HandleOps : CallOp(c, op)
        \/ \E ok \in BOOLEAN : ExecOpGet(c, ok)
        \/ \E ok \in BOOLEAN : ExecOp(c, ok)
        \/ CallHealth(c)
        \/ \E ok \in BOOLEAN : ExecPing(c, ok)
        \/ ContainerExit(c)

AllSpec == AllInit /\ [][AllNext]_vars

\* as many fresh names as PoolContainers, an engine that does not fail
PoolInit ==
    /\ cstate = [c \in PoolNames |-> "absent"]
    /\ CtlInit(PoolNames)
    /\ DispInit({})
    /\ StoreInit
    /\ ChanInit

\* run_container is called on the names in their order: the names are
\* interchangeable, so this leaves out only renamings of the same runs
PoolCall(c) ==
    /\ \A k \in PoolNames : k < c => kind[k] # "none"
    /\ CallRun(c)

PoolNext ==
    \E c \in PoolNames :
        \/ PoolCall(c)
        \/ ExecRun(c, "ok")
        \/ ScanLine(c, <<SUC, RB>>)
        \/ ScanEnd(c)
        \/ GoalResult(c)
        \/ GoalTimeout(c)
        \/ ExecRemoveGet(c, TRUE)
        \/ ExecRemoval(c, 0)

PoolSpec == PoolInit /\ [][PoolNext]_vars

\* The worker threads run the calls handed to them and the engine answers,
\* the event loop resumes a coroutine whose future is done, and the timer of
\* wait_for expires.  Nothing obliges a caller to call run_container, nor a
\* container to log a marker or to exit.
PoolFairness ==
    \A c \in PoolNames :
        /\ WF_vars(ExecRun(c, "ok"))
        /\ WF_vars(ScanEnd(c))
        /\ WF_vars(GoalResult(c))
        /\ WF_vars(GoalTimeout(c))
        /\ WF_vars(ExecRemoveGet(c, TRUE))
        /\ WF_vars(ExecRemoval(c, 0))

PoolFairSpec == PoolSpec /\ PoolFairness

\* One more name than the api_pool has workers.  Each name is the device of
\* a CREATE message in flight, whose handler calls run_container on it; the
\* containers log no marker and do not exit on their own.  The message of
\* the last name arrives once the starts of the others have timed out.
IsoInit ==
    /\ cstate = [c \in IsoNames |-> "absent"]
    /\ CtlInit(IsoNames)
    /\ DispInit({})
    /\ StoreInit
    /\ ChanInit

IsoCall(c) ==
    /\ \A k \in IsoNames : k < c => kind[k] # "none"
    /\ c = IsoContainers => timedOut = IsoNames \ {c}
    /\ CallRun(c)

IsoNext ==
    \E c \in IsoNames :
        \/ IsoCall(c)
        \/ ExecRun(c, "ok")
        \/ ScanEnd(c)
        \/ GoalTimeout(c)
        \/ ExecRemoveGet(c, TRUE)
        \/ ExecRemoval(c, 0)

IsoSpec == IsoInit /\ [][IsoNext]_vars

\* run_container on a few fresh names, in any order, on an engine that does
\* not fail: a start that timed out leaves its scan on a worker while its
\* removal is handed to the pool, so each name can hold two work items
LoadInit ==
    /\ cstate = [c \in LoadNames |-> "absent"]
    /\ CtlInit(LoadNames)
    /\ DispInit({})
    /\ StoreInit
    /\ ChanInit

LoadNext ==
    \E c \in LoadNames :
        \/ CallRun(c)
        \/ ExecRun(c, "ok")
        \/ ScanLine(c, <<SUC, RB>>)
        \/ ScanEnd(c)
        \/ GoalResult(c)
        \/ GoalTimeout(c)
        \/ ExecRemoveGet(c, TRUE)
        \/ ExecRemoval(c, 0)
        \/ ContainerExit(c)

LoadSpec == LoadInit /\ [][LoadNext]_vars

\* start_consumer, then send_message and register_queue calls in any
\* number up to MaxOps at once; no controller operation, no message
ChanStart ==
    /\ cstate = [c \in {} |-> "absent"]
    /\ CtlInit({})
    /\ DispInit({})
    /\ StoreInit
    /\ ChanInit

ChanNext ==
    \E k \in AllKinds :
        \/ \E connOk \in BOOLEAN : ChanAcquire(k, connOk)
        \/ \E connOk \in BOOLEAN : LockTaken(k, connOk)
        \/ \E ok \in BOOLEAN : EndCreate(k, ok)
        \/ \E from \in {"queue", "lockq"} : QueueGet(k, from)
        \/ \E failsAt \in 0..Len(Body(k)) : ExecBody(k, failsAt)

ChanSpec == ChanStart /\ [][ChanNext]_vars

\* more control messages than the prefetch limit, each a CREATE whose
\* lifecycle operation has not ended yet: the loop delivers them and their
\* tasks are created and started
FanSet == 1..FanMsgs
FanBody == [form |-> "object",
            obj |-> [k \in Keys |-> IF k = "action" THEN "CREATE" ELSE "cam-1"]]

FanStart ==
    /\ cstate = [c \in {} |-> "absent"]
    /\ CtlInit({})
    /\ DispInit(FanSet)
    /\ StoreInit
    /\ ChanInit

\* the consumer_pool takes its work items, and the event loop its tasks,
\* first in first out; the messages being equal, this leaves out only other
\* orders among them
FanCreateTask(m) ==
    /\ \A k \in FanSet : k < m => tpc[k] # "submitted"
    /\ CreateTask(m)

FanStartTask(m) ==
    /\ \A k \in FanSet : k < m => tpc[k] \notin {"submitted", "created"}
    /\ StartTask(m)

FanNext ==
    \/ \E m \in FanSet : Deliver(m, FanBody)
    \/ AckDelivery
    \/ \E m \in FanSet :
        \/ FanCreateTask(m)
        \/ FanStartTask(m)

FanSpec == FanStart /\ [][FanNext]_vars

\* create_instance on an empty table and an engine that holds no container
CreateStart ==
    /\ cstate = [c \in Names |-> "absent"]
    /\ CtlInit(Names)
    /\ DispInit({})
    /\ StoreInit
    /\ ChanInit

CreateNext ==
    \E c \in Names \cap InstanceIds :
        \/ \E st \in StatusNames, t \in Times, u \in Times :
              CreateBegin(c, st, t, u)
        \/ CreateRun(c)
        \/ \E o \in {"ok", "fail", "fail_created"} : ExecRun(c, o)
        \/ \E line \in EndingLines : ScanLine(c, line)
        \/ ScanEnd(c)
        \/ ScanFail(c)
        \/ GoalResult(c)
        \/ GoalTimeout(c)
        \/ \E ok \in BOOLEAN : ExecRemoveGet(c, ok)
        \/ \E failsAt \in 0..MaxRemovalCalls : ExecRemoval(c, failsAt)
        \/ ContainerExit(c)
        \/ CreateEnd(c)

CreateSpec == CreateStart /\ [][CreateNext]_vars

\* the service on an empty table; no controller operation, no message
StoreStart ==
    /\ cstate = [c \in {} |-> "absent"]
    /\ CtlInit({})
    /\ DispInit({})
    /\ StoreInit
    /\ ChanInit

StoreNext ==
    \E id \in InstanceIds :
        \/ GetInstance(id)
        \/ \E st \in StatusNames, c \in Times, u \in Times, run \in RunOutcomes :
              CreateInstance(id, st, c, u, run)
        \/ \E st \in StatusNames, c \in Times, u \in Times :
              UpdateInstance(id, st, c, u)
        \/ DeleteInstance(id)

StoreSpec == StoreStart /\ [][StoreNext]_vars

\* the control messages wait in the control queue
DispStart ==
    /\ cstate = [c \in {} |-> "absent"]
    /\ CtlInit({})
    /\ DispInit(Msgs)
    /\ StoreInit
    /\ ChanInit

DispNext ==
    \/ \E m \in Msgs, b \in Bodies : Deliver(m, b)
    \/ AckDelivery
    \/ \E m \in Msgs :
        \/ CreateTask(m)
        \/ StartTask(m)
        \/ HandlerReturn(m)
        \/ \E e \in HandlerFailures : HandlerRaise(m, e)
        \/ \E ok \in BOOLEAN : SendMessage(m, ok)

DispSpec == DispStart /\ [][DispNext]_vars

(***************************************************************************)
(* Properties.                                                             *)
(***************************************************************************)
\* goal detection of name c ended in one of the three failure outcomes: a
\* line with an error marker, the end of the stream, the timeout
GoalFailed(c) == goal[c] \in {"error_marker", "exhausted", "timeout"}

\* C1: when a run_container or start_container whose goal detection failed
\* raises to its caller, the container is absent from the engine.
C1_CleanupInvariant ==
    \A c \in Names :
        (pc[c] = "raised" /\ GoalFailed(c)) => cstate[c] = "absent"

\* C2: the error a failed goal detection raises matches the outcome:
\* ContainerExitedError with the detail of the scan for an error marker or
\* an exhausted stream, ContainerGoalTimeout for the timeout, nothing else.
C2_ErrorMatchesOutcome ==
    \A c \in Names :
        (pc[c] = "raised" /\ GoalFailed(c)) =>
            IF goal[c] = "timeout"
            THEN err[c] = Error("ContainerGoalTimeout", <<>>)
            ELSE err[c] = Error("ContainerExitedError", scanRes[c].error)

\* C3: a run_container or start_container returns normally only after the
\* success marker was seen, and then the container is present, the
\* controller issued no stop and no remove on it, and it is running unless
\* it exited on its own.
C3_SuccessKeepsContainer ==
    \A c \in Names :
        pc[c] = "returned" =>
            /\ goal[c] = "success_marker"
            /\ cstate[c] # "absent"
            /\ cstate[c] = "running" \/ c \in selfExited
            /\ \A i \in DOMAIN calls[c] : calls[c][i] \notin {"stop", "remove"}

C3_Witness ==
    \E c \in Names : pc[c] = "returned" /\ cstate[c] = "running"

\* the forced removal of name c waits in the queue of the pool
CleanupQueued(c) ==
    /\ pc[c] \in {"rm_get", "rm_exec"}
    /\ \E i \in DOMAIN pool.queue : pool.queue[i][1] = c

\* every worker of the pool runs a scan whose future was cancelled
AllWorkersAbandoned ==
    /\ Cardinality(pool.running) = ApiPoolWorkers
    /\ \A item \in pool.running : item[2] = "scan" /\ item[1] \in timedOut

\* C4: on expiry of the goal timeout the cleanup proceeds independently of
\* the abandoned scan: the forced removal of a start that timed out never
\* has to wait for abandoned scans to finish before a worker can run it.
C4_CleanupIndependentOfScan ==
    \A c \in PoolNames :
        (c \in timedOut /\ CleanupQueued(c)) => ~AllWorkersAbandoned

\* C4, as a property of behaviours: every start that timed out eventually
\* has its container removed and raises ContainerGoalTimeout.
C4_CleanupAfterTimeout ==
    \A c \in PoolNames :
        (c \in timedOut) ~>
            (/\ pc[c] = "raised"
             /\ err[c].type = "ContainerGoalTimeout"
             /\ cstate[c] = "absent")

\* the engine call of name c waits in the queue of the pool
CallQueued(c) == \E i \in DOMAIN pool.queue : pool.queue[i][1] = c

\* C11: a failure while processing one message never changes the outcome
\* of another message in flight: the lifecycle call of a message whose own
\* processing has not failed never waits for a worker while every worker
\* of the pool is held by the abandoned scan of another message's failed
\* start.
C11_FailureIsolated ==
    \A c \in IsoNames :
        (c \notin timedOut /\ pc[c] = "run" /\ CallQueued(c)) =>
            ~AllWorkersAbandoned

IsPrefix(a, b) == Len(a) <= Len(b) /\ SubSeq(b, 1, Len(a)) = a

\* name c is the subject of a remove_container called by a caller
RemoveCalled(c) == kind[c] \in {"remove", "remove_force"}

\* the engine calls the claim prescribes after the container resolved with
\* status s
C12_Order(s, force) ==
    IF s = "exited"
    THEN IF force THEN <<"get", "remove">> ELSE <<"get", "wait", "remove">>
    ELSE IF force THEN <<"get", "stop", "remove">>
         ELSE <<"get", "stop", "wait", "remove">>

\* C12: remove_container resolves the container, issues stop if and only if
\* the resolved status is not "exited", then removes at once if force, and
\* otherwise waits and only then removes; at any moment the calls issued
\* are a prefix of that sequence, and after a normal return all of them
\* were issued and the container is absent.
C12_RemoveOrder ==
    \A c \in Names :
        RemoveCalled(c) =>
            /\ hstatus[c] = "none" => calls[c] \in {<<>>, <<"get">>}
            /\ hstatus[c] # "none" =>
                 IsPrefix(calls[c], C12_Order(hstatus[c], kind[c] = "remove_force"))
            /\ pc[c] = "returned" =>
                 /\ hstatus[c] # "none"
                 /\ calls[c] = C12_Order(hstatus[c], kind[c] = "remove_force")
                 /\ cstate[c] = "absent"

\* Scenario D: a remove without force of a container that already exited
C12_Witness ==
    \E c \in Names :
        /\ kind[c] = "remove"
        /\ pc[c] = "returned"
        /\ hstatus[c] = "exited"
        /\ calls[c] = <<"get", "wait", "remove">>

\* the operations that resolve their container by name
LookupKinds ==
    {"get", "stop", "pause", "unpause", "remove", "remove_force", "start"}

\* the name of c resolves to no container: there is none, and the operation
\* removed none
Unresolved(c) ==
    /\ kind[c] \in LookupKinds
    /\ cstate[c] = "absent"
    /\ \A i \in DOMAIN calls[c] : calls[c][i] # "remove"

C13_State ==
    \A c \in Names :
        Unresolved(c) =>
            /\ pc[c] # "returned"
            /\ \A i \in DOMAIN calls[c] : calls[c][i] = "get"
            /\ pc[c] = "raised" =>
                 err[c].type \in {"ContainerNotFound", "APIError"}

\* the engine answers the lookup of name c, which names no container
C13_LookupAnswered(c) ==
    /\ cstate[c] = "absent"
    /\ ExecOpGet(c, TRUE) \/ ExecGet(c, TRUE) \/ ExecRemoveGet(c, TRUE)

C13_Step ==
    \A c \in Names :
        C13_LookupAnswered(c) =>
            /\ pc'[c] = "raised"
            /\ err'[c].type = "ContainerNotFound"
            /\ cstate' = cstate
            /\ \A item \in pool'.running : item[1] # c

\* C13: get_container, stop_container, pause_container, unpause_container,
\* remove_container and start_container on a name that resolves to no
\* container raise ContainerNotFound when the engine answers the lookup (an
\* engine error is the other error they can raise, APIError), never return
\* normally, and issue no engine call but the lookup.
C13_NotFound == []C13_State /\ [][C13_Step]_vars

C13_Witness ==
    \E c \in Names :
        /\ kind[c] = "pause"
        /\ pc[c] = "raised"
        /\ err[c].type = "ContainerNotFound"
        /\ calls[c] = <<"get">>

\* an engine call of the operation on name c fails in this step: ping,
\* get, run, start, stop, pause, unpause, wait or remove
C14_EngineCallFails(c) ==
    \/ ExecPing(c, FALSE)
    \/ ExecOpGet(c, FALSE) \/ ExecGet(c, FALSE) \/ ExecRemoveGet(c, FALSE)
    \/ ExecRun(c, "fail") \/ ExecRun(c, "fail_created")
    \/ ExecStart(c, FALSE)
    \/ ExecOp(c, FALSE)
    \/ \E failsAt \in 1..MaxRemovalCalls : ExecRemoval(c, failsAt)

GoalErrors == {"ContainerExitedError", "ContainerGoalTimeout"}

C14_Step ==
    \A c \in Names :
        /\ C14_EngineCallFails(c) =>
             pc'[c] = "raised" /\ err'[c] = Error("APIError", <<>>)
        /\ pc[c] = "raised" => pc'[c] = "raised" /\ err'[c] = err[c]
        /\ ScanFail(c) => scanRes'[c] = Exc("APIError")

C14_State ==
    \A c \in Names :
        /\ goal[c] = "stream_error" =>
             /\ pc[c] \in {"goal", "raised"}
             /\ pc[c] = "raised" => err[c] = Error("APIError", <<>>)
        /\ pc[c] = "raised" => err[c] # NoError
        /\ err[c].type \in GoalErrors =>
             /\ pc[c] = "raised"
             /\ calls[c] # <<>>
             /\ calls[c][Len(calls[c])] = "remove"
             /\ cstate[c] = "absent"

C15_CalledOnMissing ==
    /\ last.op \in {"get", "update", "delete"}
    /\ ~last.present
    /\ last.exc # "DomainLogicError"

C15_State ==
    C15_CalledOnMissing =>
        /\ last.exc = "InstanceNotFound"
        /\ last.id \notin DOMAIN store

C15_Step ==
    (last'.op \in {"get", "update", "delete"} /\ last'.id \notin DOMAIN store)
        => store' = store

\* C15: get_instance, update_instance and delete_instance on an id that is
\* not in the store raise InstanceNotFound and leave the store as it was.
C15_NotFound == []C15_State /\ [][C15_Step]_vars

\* the rows of the ids other than id are the same before and after
OthersKept(id) ==
    /\ DOMAIN store' \ {id} = DOMAIN store \ {id}
    /\ \A k \in DOMAIN store \ {id} : store'[k] = store[k]

C16_Step ==
    \A id \in InstanceIds :
        /\ \A st \in StatusNames, c \in Times, u \in Times :
             LET i == Instance(id, Member(st), c, u)
             IN  u >= c =>
                   /\ (id \notin DOMAIN store /\ CreateInstance(id, st, c, u, "none"))
                        => (DaoGet(store', id) = <<i>> /\ OthersKept(id))
                   /\ (id \in DOMAIN store /\ UpdateInstance(id, st, c, u))
                        => (DaoGet(store', id) = <<i>> /\ OthersKept(id))
        /\ (id \in DOMAIN store /\ DeleteInstance(id))
             => (id \notin DOMAIN store' /\ OthersKept(id))
        /\ GetInstance(id) =>
             /\ store' = store
             /\ IF id \in DOMAIN store
                THEN last'.exc = "none" /\ last'.ret = DaoGet(store, id)
                ELSE last'.exc = "InstanceNotFound"

\* C16: the store behaves as a map from id to Instance.  After a create of
\* an absent id, or an update of a present one, a get of that id finds the
\* Instance that was passed, field for field; after a delete it finds none;
\* the other ids keep their rows; get_instance returns what the store holds
\* and raises InstanceNotFound for an id it does not hold.
C16_StoreIsMap == [][C16_Step]_vars

\* this step is a create or an update called with timestamps c and u
C17_Called(c, u) ==
    /\ last'.op \in {"create", "update"}
    /\ last'.times = <<c, u>>
    /\ \E st \in StatusNames :
          \/ \E run \in RunOutcomes : CreateInstance(last'.id, st, c, u, run)
          \/ UpdateInstance(last'.id, st, c, u)

C17_Step ==
    \A c \in Times, u \in Times :
        (u < c /\ C17_Called(c, u))
            => (last'.exc = "DomainLogicError" /\ store' = store)

\* C17: creating or updating an Instance whose updated_at precedes its
\* created_at is rejected with DomainLogicError, and the store is the same
\* after the rejected operation as before it.
C17_RejectedBeforePersistence == [][C17_Step]_vars

C17_Witness ==
    /\ last.op = "update"
    /\ last.times[2] < last.times[1]
    /\ last.present
    /\ last.exc = "DomainLogicError"
    /\ store # << >>

\* C18: goal detection is decided by the first line that holds a marker, and
\* every marker line yields one of two outcomes: (False, message) for an
\* error marker, (True, "") for the final-success marker.
C18_MarkerLineDecides ==
    \A c \in Names :
        /\ goal[c] = "error_marker" =>
              (scanRes[c].kind = "value" /\ ~scanRes[c].success)
        /\ goal[c] = "success_marker" => scanRes[c] = Value(TRUE, <<>>)

\* C19: when the stream ends without a marker, goal detection ends with
\* (False, "final goal not reached") and the start raises
\* ContainerExitedError carrying that detail.
C19_ExhaustedOutcome ==
    \A c \in Names :
        goal[c] = "exhausted" =>
            /\ scanRes[c] = Value(FALSE, <<"final goal not reached">>)
            /\ pc[c] = "raised" =>
                  err[c] = Error("ContainerExitedError",
                                 <<"final goal not reached">>)

\* at most as many work items execute as the api_pool has workers, and an
\* item is queued only while every worker is busy
C20_State ==
    /\ Cardinality(pool.running) <= ApiPoolWorkers
    /\ pool.queue # <<>> => Cardinality(pool.running) = ApiPoolWorkers

\* an engine call is issued on a name only by a work item of that name that
\* a worker of the api_pool was executing, and that ends with the call
C20_Step ==
    \A c \in DOMAIN calls :
        calls'[c] # calls[c] =>
            \E item \in pool.running \ pool'.running : item[1] = c

\* C20: every engine call of the controller runs on its worker pool, at
\* most 5 engine calls (log scans included) execute at once, and further
\* calls wait in the queue of the pool.
C20_BoundedPool == []C20_State /\ [][C20_Step]_vars

C20_Witness ==
    /\ Cardinality(pool.running) = ApiPoolWorkers
    /\ \E c \in DOMAIN calls : Item(c, "scan") \in pool.running
    /\ pool.queue # <<>>

\* the acknowledgments published for message m on queue q
AcksOf(m, q) == SelectSeq(outQ[q], LAMBDA e : e.src = m)

Finished(m) == tpc[m] \in {"returned", "raised"}

\* C5: a delivery is acknowledged to the broker only after process_message
\* for it has completed.
C5_AckAfterOutcome ==
    \A m \in Msgs : delivery[m] = "acked" => Finished(m)

\* C6: for every control message taken from the queue an acknowledgment is
\* published, whatever became of decoding and of the handler, as long as
\* the broker accepted the publishes.
C6_AckAlwaysPublished ==
    \A m \in Msgs :
        (Finished(m) /\ ~sendFailed[m]) =>
            (AcksOf(m, "status") # <<>> \/ AcksOf(m, "delete") # <<>>)

\* a body that is not JSON, lacks a key or names an unknown action
BadBody(b) ==
    \/ b.form = "text"
    \/ "action" \notin DOMAIN b.obj
    \/ "device_id" \notin DOMAIN b.obj
    \/ b.obj["action"] \notin ActionNames

Started(m) == tpc[m] \notin {"none", "submitted", "created"}

\* C7: for a message with a bad body process_message calls no handler (no
\* mutation of the Instance Store, no lifecycle operation) and ends by
\* raising the decode error.
C7_BadBodyRejected ==
    \A m \in Msgs :
        (Started(m) /\ BadBody(body[m])) =>
            /\ tpc[m] = "raised"
            /\ texc[m] \in {"JSONDecodeError", "KeyError"}
            /\ effects[m] = {}
            /\ hres[m] = NoFailure

C7_Witness ==
    \E m \in Msgs :
        /\ tpc[m] = "raised"
        /\ body[m].form = "object"
        /\ "action" \in DOMAIN body[m].obj
        /\ body[m].obj["action"] = "BOGUS"

\* C8: for a message of an action other than REMOVE whose handler
\* succeeded, exactly one StatusAck is published, on the status-ack queue,
\* with code 2000, the device_id and the action name as state, and nothing
\* on the delete-ack queue.
C8_SuccessStatusAck ==
    \A m \in Msgs :
        (tpc[m] = "returned" /\ hres[m] = Ok
            /\ body[m].obj["action"] # "REMOVE") =>
            /\ Len(AcksOf(m, "status")) = 1
            /\ AcksOf(m, "status")[1].message.type = "status"
            /\ AcksOf(m, "status")[1].message.code = 2000
            /\ AcksOf(m, "status")[1].message.device_id = body[m].obj["device_id"]
            /\ AcksOf(m, "status")[1].message.state = body[m].obj["action"]
            /\ AcksOf(m, "delete") = <<>>

\* C9: for a REMOVE message whose handler succeeded, exactly one DeleteAck
\* with the device_id is published on the delete-ack queue and nothing on
\* the status-ack queue.
C9_SuccessDeleteAck ==
    \A m \in Msgs :
        (tpc[m] = "returned" /\ hres[m] = Ok
            /\ body[m].obj["action"] = "REMOVE") =>
            /\ AcksOf(m, "delete") =
                 <<[src |-> m,
                    message |-> AckDeleteMessage(body[m].obj["device_id"])]>>
            /\ AcksOf(m, "status") = <<>>

\* C10: for a message of any action whose handler raised, the StatusAck
\* published is one, on the status-ack queue, with code 4000, the device_id
\* and the text of the failure, and no DeleteAck; the delete-ack queue only
\* holds DeleteAcks of REMOVEs whose handler succeeded.
C10_FailureStatusAck ==
    /\ \A m \in Msgs :
        (tpc[m] = "returned" /\ hres[m] \in HandlerFailures) =>
            /\ AcksOf(m, "status") =
                 <<[src |-> m,
                    message |-> AckStatusMessage(4000, body[m].obj["device_id"],
                                                 body[m].obj["action"],
                                                 hres[m].text)]>>
            /\ AcksOf(m, "delete") = <<>>
    /\ \A i \in DOMAIN outQ["delete"] :
        LET e == outQ["delete"][i]
        IN  /\ hres[e.src] = Ok
            /\ body[e.src].obj["action"] = "REMOVE"
            /\ e.message = AckDeleteMessage(body[e.src].obj["device_id"])

C10_Witness ==
    \E m \in Msgs :
        /\ tpc[m] = "returned"
        /\ hres[m] \in HandlerFailures
        /\ body[m].obj["action"] = "REMOVE"
        /\ Len(AcksOf(m, "status")) = 1

\* C21: a failure of the broker plumbing while an acknowledgment is
\* published is never turned into a StatusAck of code 4000: process_message
\* raises it, and a message whose handler succeeded gets no 4000
\* acknowledgment.
C21_PlumbingFailurePropagates ==
    \A m \in Msgs :
        /\ sendFailed[m] => (tpc[m] = "raised" /\ texc[m] = BrokerFailure.type)
        /\ hres[m] = Ok =>
              \A i \in DOMAIN AcksOf(m, "status") :
                  AcksOf(m, "status")[i].message.code # 4000

\* operations that are inside their `async with`, the consume loop included
InsideBlock ==
    at["send"]["body"] + at["register"]["body"] + at["consume"]["body"]
    + at["consume"]["iterating"]

\* the pools keep within their sizes; the channels that are out of the pool
\* are those of the operations inside their block, the consume loop holding
\* one; a connection is out only while get_channel runs
C22_State ==
    /\ channel_pool.created <= ChannelPoolSize
    /\ connection_pool.created <= ConnectionPoolSize
    /\ HeldChannels = InsideBlock
    /\ HeldConnections =
         at["send"]["create"] + at["register"]["create"]
         + at["consume"]["create"]
    /\ consumeAt = "iterating" => at["consume"]["iterating"] = 1

\* a send_message or register_queue that leaves its block, by returning or
\* by raising at any of its calls, puts one channel back
C22_Step ==
    \A k \in OpKinds :
        at'[k]["body"] < at[k]["body"] =>
            channel_pool'.free = channel_pool.free + 1

\* C22: channels are acquired per operation with scoped release: when
\* send_message or register_queue finishes, normally or by raising, its
\* channel is back in the pool; at most 10 channels and 2 connections are
\* held, and the consume loop holds exactly one channel while it runs.
C22_ScopedRelease == []C22_State /\ [][C22_Step]_vars

C22_Witness ==
    /\ channel_pool.created = ChannelPoolSize
    /\ channel_pool.free = 1
    /\ at["send"]["queue"] + at["register"]["queue"] > 0
    /\ lastDone = Done("send", "bind")
    /\ consumeAt = "iterating"

\* messages whose process_message task has started and has not ended
InProgress ==
    {m \in DOMAIN tpc : tpc[m] \in {"handling", "send_try", "send_except"}}

\* C23: the consume loop spawns one handler task per delivery without
\* awaiting it: whatever the handlers in progress, the loop can leave
\* message.process() and acknowledge the delivery, so that no more than one
\* delivery is unacknowledged and neither the prefetch limit of 10 nor the
\* 5 workers of the consumer_pool bound the handlers in progress.
C23_UnboundedFanOut ==
    /\ consumer.at = "process" => ENABLED AckDelivery
    /\ Cardinality({m \in DOMAIN delivery : delivery[m] = "delivered"}) <= 1

C23_Witness == Cardinality(InProgress) > Prefetch

\* the work items of name c that the api_pool runs or holds in its queue
ItemsOf(c) ==
    {item \in pool.running : item[1] = c}
        \cup {pool.queue[i] : i \in {j \in DOMAIN pool.queue : pool.queue[j][1] = c}}

\* goal detection was entered for name c: its scan was handed to the pool
ScanOpened(c) == Item(c, "scan") \in ItemsOf(c) \/ goal[c] # "none"

\* the engine calls that come before goal detection
StartCalls(k) == IF k = "run" THEN <<"run">> ELSE <<"get", "start">>

C24_State ==
    \A c \in Names :
        kind[c] \in {"run", "start"} =>
            /\ ScanOpened(c) => IsPrefix(StartCalls(kind[c]), calls[c])
            /\ ~ScanOpened(c) =>
                 /\ IsPrefix(calls[c], StartCalls(kind[c]))
                 /\ pc[c] = "raised" =>
                      /\ err[c].type \in {"APIError", "ContainerNotFound"}
                      /\ ItemsOf(c) = {}

C24_Step ==
    \A c \in Names :
        /\ (~ScanOpened(c) /\ ScanOpened(c)') =>
              /\ ExecRun(c, "ok") \/ ExecStart(c, TRUE)
              /\ cstate'[c] = "running"
        /\ (ExecRun(c, "fail") \/ ExecRun(c, "fail_created")
              \/ ExecStart(c, FALSE)) =>
              /\ pc'[c] = "raised"
              /\ err'[c] = Error("APIError", <<>>)
              /\ ~ScanOpened(c)'
              /\ ItemsOf(c)' = {}

\* C24: run_container and start_container enter goal detection only after
\* the engine reported the container started (start_container: get, then
\* start, then the scan); when the create or the start call fails, no scan
\* is opened, no removal is attempted and the engine error reaches the
\* caller.
C24_ScanAfterStart == []C24_State /\ [][C24_Step]_vars

C24_Witness ==
    \E c \in Names :
        /\ kind[c] = "start"
        /\ calls[c] = <<"get", "start">>
        /\ pc[c] = "raised"
        /\ err[c] = Error("APIError", <<>>)
        /\ cstate[c] = "exited"

\* C25: create_instance is all-or-nothing across store and engine: after a
\* normal return the record is stored and its container is there, running
\* unless it exited on its own; after it raised an engine error,
\* ContainerExitedError or ContainerGoalTimeout, neither the record nor the
\* container exists.
C25_AllOrNothing ==
    last.op = "create" =>
        /\ last.exc = "none" =>
             /\ last.id \in DOMAIN store
             /\ cstate[last.id] = "running" \/ last.id \in selfExited
        /\ last.exc \in {"APIError", "ContainerExitedError",
                         "ContainerGoalTimeout"} =>
             /\ last.id \notin DOMAIN store
             /\ cstate[last.id] = "absent"

\* C26: under any interleaving of the handlers, every published
\* acknowledgment carries the device_id, and a StatusAck the action name as
\* state, of the control message whose processing produced it.
C26_AckOfOwnMessage ==
    \A q \in DOMAIN outQ :
        \A i \in DOMAIN outQ[q] :
            LET e == outQ[q][i]
            IN  /\ e.message.device_id = body[e.src].obj["device_id"]
                /\ e.message.type = "status" =>
                     e.message.state = body[e.src].obj["action"]

\* the acknowledgments of two messages for different devices and actions,
\* published in the reverse of the order of their deliveries
C26_Witness ==
    /\ Len(outQ["status"]) = 2
    /\ outQ["status"][1].src = 2
    /\ outQ["status"][2].src = 1
    /\ body[1].obj["device_id"] # body[2].obj["device_id"]
    /\ body[1].obj["action"] # body[2].obj["action"]
    /\ outQ["status"][1].message.code = 4000

=============================================================================
